---- MODULE Spec2Model ----
(***************************************************************************)
(* Register-level model of the GPIO driver functions (em_gpio.c part) and  *)
(* of the lifecycle-event-flag utility (sl_se_manager_util.h part).        *)
(*                                                                         *)
(* A 32-bit (or 64-bit) word is the set of the positions of its 1 bits,    *)
(* so that &, |, ~, << and >> are set operations and a shift that leaves   *)
(* the word is truncated as the hardware truncates it.                     *)
(*                                                                         *)
(* A driver function is the sequence of the register accesses it makes,    *)
(* in program order; Step executes them one at a time, so that the         *)
(* hardware (HwEdge) can act between two accesses.                         *)
(***************************************************************************)
EXTENDS Integers, Sequences, FiniteSets, TLC

VARIABLES series, regs, pc, frame, todo, trace, entry, got, edgeAfterClear,
          flags, flagsIn, flagArg, isSet,
          seDev, seLast, disableOk,
          ireg, ipc, ifr, itodo, itmp, ientry, isrLog

vars == <<series, regs, pc, frame, todo, trace, entry, got, edgeAfterClear,
          flags, flagsIn, flagArg, isSet,
          seDev, seLast, disableOk,
          ireg, ipc, ifr, itodo, itmp, ientry, isrLog>>

gpioVars == <<series, regs, pc, frame, todo, trace, entry, got, edgeAfterClear>>
seVars == <<flags, flagsIn, flagArg, isSet>>
devVars == <<seDev, seLast, disableOk>>
irqVars == <<ireg, ipc, ifr, itodo, itmp, ientry, isrLog>>

(***************************************************************************)
(* Bounds of the model.                                                    *)
(***************************************************************************)
\* ports are 0..MaxPort
MaxPort == 1
\* EM4 wake-up inputs are 0..MaxWU
MaxWU == 2

Ports == 0..MaxPort
Pins == 0..15
IntNos == 0..15
Modes == 0..15
WUs == 0..MaxWU
W32 == 0..31
NoneYet == [fn |-> "none"]

(***************************************************************************)
(* Words as sets of bit positions.                                         *)
(***************************************************************************)
\* the word of a small unsigned number
Bits(n) == {i \in 0..15 : (n \div (2^i)) % 2 = 1}

\* w << k in 32 bits
Shl(w, k) == {b + k : b \in w} \cap W32

\* w >> k
Shr(w, k) == {b - k : b \in {x \in w : x >= k}}

RECURSIVE Val(_)
\* the number of a word (used for fields of a few bits)
Val(w) == IF w = {} THEN 0
          ELSE LET b == CHOOSE x \in w : TRUE IN 2^b + Val(w \ {b})

(***************************************************************************)
(* The device: _SILICON_LABS_32B_SERIES (0, 1 or 2) selects the register   *)
(* layout through the conditional compilation of the source.               *)
(***************************************************************************)
SeriesSet == {0, 1, 2}

\* defined(_GPIO_EXTIPINSELL_MASK): the pin of an interrupt is selectable
HasExtIPinSel == series >= 1

\* defined(GPIO_HAS_SET_CLEAR)
GPIO_HAS_SET_CLEAR == series = 2

\* defined(_GPIO_EM4WUPOL_MASK), else defined(_GPIO_EXTILEVEL_MASK)
HasEM4WUPol == series \in {0, 2}

\* defined(_GPIO_CMD_EM4WUCLR_MASK)
HasCmdEM4WUClr == series = 0

\* defined(_GPIO_CTRL_EM4RET_MASK), else EMU->EM4CTRL holds the retention mode
HasCtrlEM4Ret == series = 0

\* _GPIO_EXTIPSELL_EXTIPSEL0_MASK and its EXTIPSELH counterpart
EXTIPSEL_MASK == IF series = 0 THEN Bits(7) ELSE IF series = 1 THEN Bits(15) ELSE Bits(3)

\* _GPIO_EXTIPSELL_EXTIPSEL1_SHIFT, _GPIO_EXTIPSELH_EXTIPSEL1_SHIFT / _EXTIPSEL9_SHIFT
EXTIPSEL_SHIFT == 4

\* _GPIO_EXTIPINSELL_EXTIPINSEL0_MASK and its EXTIPINSELH counterpart
EXTIPINSEL_MASK == Bits(3)

\* _GPIO_EXTIPINSELL_EXTIPINSEL1_SHIFT, _GPIO_EXTIPINSELH_EXTIPINSEL1_SHIFT / _EXTIPINSEL9_SHIFT
EXTIPINSEL_SHIFT == 4

\* _GPIO_EM4WUEN_EM4WUEN_SHIFT
EM4WUEN_SHIFT == IF series = 0 THEN 0 ELSE 16

\* _GPIO_IEN_EM4WU_SHIFT, _GPIO_IEN_EM4WUIEN_SHIFT, _GPIO_IEN_EM4WUIEN0_SHIFT
IEN_EM4WU_SHIFT == 16

gpioModeDisabled == 0
gpioModeInputPullFilter == 3

\* GPIO_CTRL_EM4RET
GPIO_CTRL_EM4RET == {0}
\* GPIO_CMD_EM4WUCLR
GPIO_CMD_EM4WUCLR == {0}
\* _EMU_EM4CTRL_EM4IORETMODE_MASK and EMU_EM4CTRL_EM4IORETMODE_EM4EXIT
EM4IORETMODE_MASK == {4, 5}
EM4IORETMODE_EM4EXIT == {4}

(***************************************************************************)
(* Registers.  A register is named <<name, port>>; port is 0 for the       *)
(* registers that are not per port.                                        *)
(***************************************************************************)
GlobalRegs == {"EXTIPSELL", "EXTIPSELH", "EXTIPINSELL", "EXTIPINSELH",
               "EXTIRISE", "EXTIFALL", "IF", "IEN", "EM4WUPOL", "EXTILEVEL",
               "EM4WUEN", "CTRL", "EM4CTRL", "EM4WUCAUSE"}
PortRegs == {"MODEL", "MODEH", "DOUT"}
RegIds == (GlobalRegs \X {0}) \cup (PortRegs \X Ports)

G(name) == <<name, 0>>
P(port, name) == <<name, port>>

(***************************************************************************)
(* Register accesses.  An access is a record; Apply gives its effect.      *)
(* Field by names the function that makes the access.                      *)
(***************************************************************************)
RECURSIVE In(_, _)
\* the accesses ops, those not yet attributed being made by function fn
In(fn, ops) ==
  IF ops = <<>> THEN <<>>
  ELSE <<IF Head(ops).by = "" THEN [Head(ops) EXCEPT !.by = fn] ELSE Head(ops)>>
       \o In(fn, Tail(ops))

\* *addr = (*addr & ~mask) | val   (val is not masked)
BUS_RegMaskedWrite(reg, mask, val) ==
  [by |-> "", reg |-> reg, kind |-> "masked", mask |-> mask, val |-> val]

\* bit `bit` of *addr becomes val
BUS_RegBitWrite(reg, bit, val) ==
  [by |-> "", reg |-> reg, kind |-> "masked", mask |-> {bit}, val |-> IF val THEN {bit} ELSE {}]

\* reg_SET = val (a single write to the set alias of reg)
RegSet(reg, val) == [by |-> "", reg |-> reg, kind |-> "set", mask |-> {}, val |-> val]

\* reg_CLR = val (a single write to the clear alias of reg, or to IFC)
RegClear(reg, val) == [by |-> "", reg |-> reg, kind |-> "clear", mask |-> {}, val |-> val]

\* reg |= val
RegOr(reg, val) == [by |-> "", reg |-> reg, kind |-> "or", mask |-> {}, val |-> val]

\* reg &= ~val
RegAndNot(reg, val) == [by |-> "", reg |-> reg, kind |-> "andnot", mask |-> {}, val |-> val]

\* reg_SET = val where the device has set/clear aliases, else reg |= val
SetBits(reg, val) == IF GPIO_HAS_SET_CLEAR THEN RegSet(reg, val) ELSE RegOr(reg, val)

\* reg_CLR = val where the device has set/clear aliases, else reg &= ~val
ClearBits(reg, val) == IF GPIO_HAS_SET_CLEAR THEN RegClear(reg, val) ELSE RegAndNot(reg, val)

\* GPIO->CMD = val
CmdWrite(val) == [by |-> "", reg |-> G("CMD"), kind |-> "cmd", mask |-> {}, val |-> val]

\* GPIO->IFC = flags, or GPIO->IF_CLR = flags
GPIO_IntClear(flagbits) == RegClear(G("IF"), flagbits)

\* GPIO->P[port].DOUT bit pin set
GPIO_PinOutSet(port, pin) == RegSet(P(port, "DOUT"), {pin})

\* GPIO->P[port].DOUT bit pin cleared
GPIO_PinOutClear(port, pin) == RegClear(P(port, "DOUT"), {pin})

\* enable: GPIO->CTRL |= EM4RET, or the EM4IORETMODE field of EMU->EM4CTRL = EM4EXIT
GPIO_EM4SetPinRetention(enable) ==
  IF HasCtrlEM4Ret
  THEN IF enable THEN RegOr(G("CTRL"), GPIO_CTRL_EM4RET)
                 ELSE RegAndNot(G("CTRL"), GPIO_CTRL_EM4RET)
  ELSE BUS_RegMaskedWrite(G("EM4CTRL"), EM4IORETMODE_MASK,
                          IF enable THEN EM4IORETMODE_EM4EXIT ELSE {})

\* the register file after access op
Apply(r, op) ==
  CASE op.kind = "masked" -> [r EXCEPT ![op.reg] = (@ \ op.mask) \cup op.val]
    [] op.kind \in {"set", "or"} -> [r EXCEPT ![op.reg] = @ \cup op.val]
    [] op.kind \in {"clear", "andnot"} -> [r EXCEPT ![op.reg] = @ \ op.val]
    [] op.kind = "cmd"    -> IF GPIO_CMD_EM4WUCLR \subseteq op.val
                             THEN [r EXCEPT ![G("EM4WUCAUSE")] = {}]
                             ELSE r

(***************************************************************************)
(* The driver functions: the register accesses each makes, in order.       *)
(***************************************************************************)
\* GPIO_INTNO_PIN_VALID(intNo, pin), asserted where the pin is selectable
GPIO_INTNO_PIN_VALID(intNo, pin) == (pin \div 4) = (intNo \div 4)

\* the external interrupt accesses of GPIO_ExtIntConfig, port and pin selection first
ExtIntSelect(port, pin, intNo, shiftH) ==
  <<IF intNo < 8
    THEN BUS_RegMaskedWrite(G("EXTIPSELL"),
                            Shl(EXTIPSEL_MASK, EXTIPSEL_SHIFT * intNo),
                            Shl(Bits(port), EXTIPSEL_SHIFT * intNo))
    ELSE BUS_RegMaskedWrite(G("EXTIPSELH"),
                            Shl(EXTIPSEL_MASK, EXTIPSEL_SHIFT * shiftH),
                            Shl(Bits(port), EXTIPSEL_SHIFT * shiftH))>>
  \o (IF HasExtIPinSel
      THEN <<IF intNo < 8
             THEN BUS_RegMaskedWrite(G("EXTIPINSELL"),
                                     Shl(EXTIPINSEL_MASK, EXTIPINSEL_SHIFT * intNo),
                                     Shl(Bits(pin % 4) \cap EXTIPINSEL_MASK,
                                         EXTIPINSEL_SHIFT * intNo))
             ELSE BUS_RegMaskedWrite(G("EXTIPINSELH"),
                                     Shl(EXTIPINSEL_MASK, EXTIPINSEL_SHIFT * shiftH),
                                     Shl(Bits(pin % 4) \cap EXTIPINSEL_MASK,
                                         EXTIPSEL_SHIFT * shiftH))>>
      ELSE <<>>)

\* GPIO_ExtIntConfig with the pending interrupt cleared after the enable
ExtIntConfig_ClearAfterEnable(port, pin, intNo, risingEdge, fallingEdge, enable) ==
  In("GPIO_ExtIntConfig",
     ExtIntSelect(port, pin, intNo, intNo - 8)
     \o <<BUS_RegBitWrite(G("EXTIRISE"), intNo, risingEdge),
          BUS_RegBitWrite(G("EXTIFALL"), intNo, fallingEdge),
          BUS_RegBitWrite(G("IEN"), intNo, enable),
          GPIO_IntClear(Shl({0}, intNo))>>)

\* GPIO_ExtIntConfig with the falling edge written from risingEdge
ExtIntConfig_FallFromRise(port, pin, intNo, risingEdge, fallingEdge, enable) ==
  In("GPIO_ExtIntConfig",
     ExtIntSelect(port, pin, intNo, intNo - 8)
     \o <<BUS_RegBitWrite(G("EXTIRISE"), intNo, risingEdge),
          BUS_RegBitWrite(G("EXTIFALL"), intNo, risingEdge),
          GPIO_IntClear(Shl({0}, intNo)),
          BUS_RegBitWrite(G("IEN"), intNo, enable)>>)

\* GPIO_ExtIntConfig with the fields of the high registers shifted by intNo, not intNo - 8
ExtIntConfig_NoTmp(port, pin, intNo, risingEdge, fallingEdge, enable) ==
  In("GPIO_ExtIntConfig",
     ExtIntSelect(port, pin, intNo, intNo)
     \o <<BUS_RegBitWrite(G("EXTIRISE"), intNo, risingEdge),
          BUS_RegBitWrite(G("EXTIFALL"), intNo, fallingEdge),
          GPIO_IntClear(Shl({0}, intNo)),
          BUS_RegBitWrite(G("IEN"), intNo, enable)>>)

GPIO_ExtIntConfig(port, pin, intNo, risingEdge, fallingEdge, enable) ==
  LET tmp == intNo - 8
      portSel ==
        IF intNo < 8
        THEN BUS_RegMaskedWrite(G("EXTIPSELL"),
                                Shl(EXTIPSEL_MASK, EXTIPSEL_SHIFT * intNo),
                                Shl(Bits(port), EXTIPSEL_SHIFT * intNo))
        ELSE BUS_RegMaskedWrite(G("EXTIPSELH"),
                                Shl(EXTIPSEL_MASK, EXTIPSEL_SHIFT * tmp),
                                Shl(Bits(port), EXTIPSEL_SHIFT * tmp))
      pinSel ==
        IF intNo < 8
        THEN BUS_RegMaskedWrite(G("EXTIPINSELL"),
                                Shl(EXTIPINSEL_MASK, EXTIPINSEL_SHIFT * intNo),
                                Shl(Bits(pin % 4) \cap EXTIPINSEL_MASK,
                                    EXTIPINSEL_SHIFT * intNo))
        ELSE BUS_RegMaskedWrite(G("EXTIPINSELH"),
                                Shl(EXTIPINSEL_MASK, EXTIPINSEL_SHIFT * tmp),
                                Shl(Bits(pin % 4) \cap EXTIPINSEL_MASK,
                                    EXTIPSEL_SHIFT * tmp))
  IN  In("GPIO_ExtIntConfig",
         <<portSel>>
         \o (IF HasExtIPinSel THEN <<pinSel>> ELSE <<>>)
         \o <<BUS_RegBitWrite(G("EXTIRISE"), intNo, risingEdge),
              BUS_RegBitWrite(G("EXTIFALL"), intNo, fallingEdge),
              GPIO_IntClear(Shl({0}, intNo)),
              BUS_RegBitWrite(G("IEN"), intNo, enable)>>)

\* the MODEL/MODEH access of GPIO_PinModeSet with a field mask of fieldMask
PinModeWrite(port, pin, mode, fieldMask) ==
  IF pin < 8
  THEN BUS_RegMaskedWrite(P(port, "MODEL"), Shl(fieldMask, pin * 4),
                          Shl(Bits(mode), pin * 4))
  ELSE BUS_RegMaskedWrite(P(port, "MODEH"), Shl(fieldMask, (pin - 8) * 4),
                          Shl(Bits(mode), (pin - 8) * 4))

\* GPIO_PinModeSet clearing only three bits of the mode field
PinModeSet_Mask7(port, pin, mode, out) ==
  In("GPIO_PinModeSet",
     (IF mode # gpioModeDisabled
      THEN <<IF out # 0 THEN GPIO_PinOutSet(port, pin) ELSE GPIO_PinOutClear(port, pin)>>
      ELSE <<>>)
     \o <<PinModeWrite(port, pin, mode, Bits(7))>>
     \o (IF mode = gpioModeDisabled
         THEN <<IF out # 0 THEN GPIO_PinOutSet(port, pin) ELSE GPIO_PinOutClear(port, pin)>>
         ELSE <<>>))

\* GPIO_PinModeSet leaving DOUT alone when the pin is disabled
PinModeSet_KeepDoutWhenDisabled(port, pin, mode, out) ==
  In("GPIO_PinModeSet",
     (IF mode # gpioModeDisabled
      THEN <<IF out # 0 THEN GPIO_PinOutSet(port, pin) ELSE GPIO_PinOutClear(port, pin)>>
      ELSE <<>>)
     \o <<PinModeWrite(port, pin, mode, Bits(15))>>)

GPIO_PinModeSet(port, pin, mode, out) ==
  LET dout == IF out # 0 THEN GPIO_PinOutSet(port, pin)
                         ELSE GPIO_PinOutClear(port, pin)
      modeWrite ==
        IF pin < 8
        THEN BUS_RegMaskedWrite(P(port, "MODEL"), Shl(Bits(15), pin * 4),
                                Shl(Bits(mode), pin * 4))
        ELSE BUS_RegMaskedWrite(P(port, "MODEH"), Shl(Bits(15), (pin - 8) * 4),
                                Shl(Bits(mode), (pin - 8) * 4))
  IN  In("GPIO_PinModeSet",
         (IF mode # gpioModeDisabled THEN <<dout>> ELSE <<>>)
         \o <<modeWrite>>
         \o (IF mode = gpioModeDisabled THEN <<dout>> ELSE <<>>))

\* reads the register file r
GPIO_PinModeGet(r, port, pin) ==
  IF pin < 8
  THEN Val(Shr(r[P(port, "MODEL")], pin * 4) \cap Bits(15))
  ELSE Val(Shr(r[P(port, "MODEH")], (pin - 8) * 4) \cap Bits(15))

\* the polarity register of the EM4 wake-up inputs
WuPolReg == IF HasEM4WUPol THEN G("EM4WUPOL") ELSE G("EXTILEVEL")

\* GPIO_EM4EnablePinWakeup setting the polarity without clearing it first
EM4EnablePinWakeup_PolarityOnlySet(pinmask, polaritymask) ==
  In("GPIO_EM4EnablePinWakeup",
     <<SetBits(WuPolReg, pinmask \cap polaritymask),
       SetBits(G("EM4WUEN"), pinmask),
       GPIO_EM4SetPinRetention(TRUE),
       IF HasCmdEM4WUClr THEN CmdWrite(GPIO_CMD_EM4WUCLR)
                         ELSE GPIO_IntClear(pinmask)>>)

\* GPIO_EM4EnablePinWakeup clearing the wake-up logic before enabling the retention
EM4EnablePinWakeup_ClearBeforeRetention(pinmask, polaritymask) ==
  In("GPIO_EM4EnablePinWakeup",
     <<ClearBits(WuPolReg, pinmask),
       SetBits(WuPolReg, pinmask \cap polaritymask),
       SetBits(G("EM4WUEN"), pinmask),
       IF HasCmdEM4WUClr THEN CmdWrite(GPIO_CMD_EM4WUCLR)
                         ELSE GPIO_IntClear(pinmask),
       GPIO_EM4SetPinRetention(TRUE)>>)

GPIO_EM4EnablePinWakeup(pinmask, polaritymask) ==
  In("GPIO_EM4EnablePinWakeup",
     <<ClearBits(WuPolReg, pinmask),
       SetBits(WuPolReg, pinmask \cap polaritymask),
       SetBits(G("EM4WUEN"), pinmask),
       GPIO_EM4SetPinRetention(TRUE),
       IF HasCmdEM4WUClr THEN CmdWrite(GPIO_CMD_EM4WUCLR)
                         ELSE GPIO_IntClear(pinmask)>>)

\* GPIO_EM4WUExtIntConfig writing the interrupt enable before the wake-up is set up
EM4WUExtIntConfig_EnableFirst(port, pin, intNo, polarity, enable) ==
  In("GPIO_EM4WUExtIntConfig",
     GPIO_PinModeSet(port, pin, gpioModeInputPullFilter, IF polarity THEN 0 ELSE 1)
     \o <<BUS_RegBitWrite(G("IEN"), intNo + IEN_EM4WU_SHIFT, enable)>>
     \o GPIO_EM4EnablePinWakeup(Shl({0}, intNo + EM4WUEN_SHIFT),
                                IF polarity THEN Shl({0}, intNo + EM4WUEN_SHIFT) ELSE {}))

\* GPIO_EM4WUExtIntConfig pulling the pin towards the active level
EM4WUExtIntConfig_PullActive(port, pin, intNo, polarity, enable) ==
  In("GPIO_EM4WUExtIntConfig",
     GPIO_PinModeSet(port, pin, gpioModeInputPullFilter, IF polarity THEN 1 ELSE 0)
     \o GPIO_EM4EnablePinWakeup(Shl({0}, intNo + EM4WUEN_SHIFT),
                                IF polarity THEN Shl({0}, intNo + EM4WUEN_SHIFT) ELSE {})
     \o <<BUS_RegBitWrite(G("IEN"), intNo + IEN_EM4WU_SHIFT, enable)>>)

GPIO_EM4WUExtIntConfig(port, pin, intNo, polarity, enable) ==
  LET polarityMask == IF polarity THEN Shl({0}, intNo + EM4WUEN_SHIFT) ELSE {}
      pinmask == Shl({0}, intNo + EM4WUEN_SHIFT)
  IN  In("GPIO_EM4WUExtIntConfig",
         GPIO_PinModeSet(port, pin, gpioModeInputPullFilter, IF polarity THEN 0 ELSE 1)
         \o GPIO_EM4EnablePinWakeup(pinmask, polarityMask)
         \o <<BUS_RegBitWrite(G("IEN"), intNo + IEN_EM4WU_SHIFT, enable)>>)

(***************************************************************************)
(* The lifecycle event flags (Series 3).  A 64-bit word is a subset of     *)
(* 0..63.                                                                  *)
(***************************************************************************)
\* the values of sl_se_lifecycle_event_flag_t
LifecycleEventFlags == 0..7

\* the bits the flags word of the model may have set
FlagBitChoices == (0..7) \cup {8, 31, 32, 63}

\* the int 1 << n (n in 0..31), converted to uint64_t: an int with bit 31
\* set is negative and is sign-extended
IntOneShl(n) == IF n < 31 THEN {n} ELSE 31..63

\* the flag index used as the mask, without the shift
flag_is_set_NoShift(flagsWord, flag_index) ==
  (flagsWord \cap Bits(flag_index)) # {}

\* return (*flags & (1 << flag_index) ? true : false);
sl_se_lifecycle_event_flag_is_set(flagsWord, flag_index) ==
  (flagsWord \cap IntOneShl(flag_index)) # {}

(***************************************************************************)
(* The state machine of the GPIO driver: one configuration call, executed  *)
(* access by access, on a register file of arbitrary content.              *)
(***************************************************************************)
InitGpio ==
  /\ series \in SeriesSet
  /\ \E pattern \in {{}, W32} : regs = [id \in RegIds |-> pattern]
  /\ entry = regs
  /\ pc = "idle"
  /\ frame = NoneYet
  /\ todo = <<>>
  /\ trace = <<>>
  /\ got = NoneYet
  /\ edgeAfterClear = {}

SeIdle ==
  /\ flags = {}
  /\ flagsIn = {}
  /\ flagArg = 0
  /\ isSet = <<>>

\* the Secure Engine as delivered, no command sent
DevIdle ==
  /\ seDev = [eraseDisabled |-> FALSE, debugLocked |-> FALSE, secureDebug |-> FALSE,
              debugOpen |-> FALSE, erases |-> 0]
  /\ seLast = NoneYet
  /\ disableOk = FALSE

\* no register update in progress, no interrupt taken
IrqIdle ==
  /\ ireg = {}
  /\ ipc = "idle"
  /\ ifr = NoneYet
  /\ itodo = <<>>
  /\ itmp = {}
  /\ ientry = {}
  /\ isrLog = <<>>

Init == InitGpio /\ SeIdle /\ DevIdle /\ IrqIdle

\* a function is entered (the device is idle): its accesses are still to be made
Call(fr, ops) ==
  /\ pc' = "run"
  /\ frame' = fr
  /\ todo' = ops
  /\ trace' = <<>>
  /\ entry' = regs
  /\ UNCHANGED <<series, regs, got, edgeAfterClear>>
  /\ UNCHANGED <<seVars, devVars, irqVars>>

\* the pins GPIO_ExtIntConfig is called with for interrupt intNo
ExtIntPins(intNo) ==
  IF HasExtIPinSel THEN {p \in Pins : GPIO_INTNO_PIN_VALID(intNo, p)}
                   ELSE {intNo, 15 - intNo}

CallExtIntConfig ==
  /\ pc = "idle"
  /\ \E port \in Ports, intNo \in IntNos, risingEdge \in BOOLEAN,
        fallingEdge \in BOOLEAN, enable \in BOOLEAN :
      \E pin \in ExtIntPins(intNo) :
      Call([fn |-> "GPIO_ExtIntConfig", port |-> port, pin |-> pin, intNo |-> intNo,
            risingEdge |-> risingEdge, fallingEdge |-> fallingEdge, enable |-> enable],
           GPIO_ExtIntConfig(port, pin, intNo, risingEdge, fallingEdge, enable))

CallPinModeSet ==
  /\ pc = "idle"
  /\ \E port \in Ports, pin \in Pins, mode \in Modes, out \in {0, 1, 2} :
    Call([fn |-> "GPIO_PinModeSet", port |-> port, pin |-> pin, mode |-> mode,
          out |-> out],
         GPIO_PinModeSet(port, pin, mode, out))

\* the masks over the EM4 wake-up inputs of the model
WuMasks == SUBSET {w + EM4WUEN_SHIFT : w \in WUs}

CallEM4EnablePinWakeup ==
  /\ pc = "idle"
  /\ \E pinmask \in WuMasks, polaritymask \in WuMasks :
    Call([fn |-> "GPIO_EM4EnablePinWakeup", pinmask |-> pinmask,
          polaritymask |-> polaritymask],
         GPIO_EM4EnablePinWakeup(pinmask, polaritymask))

\* #if _SILICON_LABS_32B_SERIES > 0
CallEM4WUExtIntConfig ==
  /\ pc = "idle"
  /\ series > 0
  /\ \E port \in Ports, pin \in Pins, intNo \in WUs, polarity \in BOOLEAN,
        enable \in BOOLEAN :
       Call([fn |-> "GPIO_EM4WUExtIntConfig", port |-> port, pin |-> pin,
             intNo |-> intNo, polarity |-> polarity, enable |-> enable],
            GPIO_EM4WUExtIntConfig(port, pin, intNo, polarity, enable))

\* the next register access of the running function
Step ==
  /\ pc = "run"
  /\ regs' = Apply(regs, Head(todo))
  /\ trace' = Append(trace, Head(todo))
  /\ todo' = Tail(todo)
  /\ pc' = IF Len(todo) = 1 THEN "done" ELSE "run"
  /\ UNCHANGED <<series, frame, entry, got, edgeAfterClear>>
  /\ UNCHANGED <<seVars, devVars, irqVars>>

\* the interrupt flags the running function is concerned with
WatchedFlags ==
  CASE frame.fn = "GPIO_ExtIntConfig" -> {frame.intNo}
    [] frame.fn = "GPIO_EM4EnablePinWakeup" -> frame.pinmask
    [] frame.fn = "GPIO_EM4WUExtIntConfig" -> {frame.intNo + EM4WUEN_SHIFT}
    [] OTHER -> {}

\* the flags the running function has written a clear for
ClearedSoFar ==
  UNION {trace[i].val : i \in {j \in 1..Len(trace) :
                                 trace[j].reg = G("IF") /\ trace[j].kind = "clear"}}

\* the hardware sees an edge (or level) and sets an interrupt flag
HwEdge ==
  /\ pc = "run"
  /\ \E b \in WatchedFlags \ regs[G("IF")] :
       /\ regs' = [regs EXCEPT ![G("IF")] = @ \cup {b}]
       /\ edgeAfterClear' = IF b \in ClearedSoFar THEN edgeAfterClear \cup {b}
                                                  ELSE edgeAfterClear
  /\ UNCHANGED <<series, pc, frame, todo, trace, entry, got>>
  /\ UNCHANGED <<seVars, devVars, irqVars>>

\* the pins GPIO_PinModeGet is called with
GetPins == IF pc = "idle" THEN Pins ELSE {frame.pin, (frame.pin + 1) % 16}

\* GPIO_PinModeGet on an idle device or after a call that set a pin mode
CallPinModeGet ==
  /\ \/ pc = "idle"
     \/ pc = "done" /\ frame.fn \in {"GPIO_PinModeSet", "GPIO_EM4WUExtIntConfig"}
  /\ got = NoneYet
  /\ \E port \in Ports, pin \in GetPins :
       got' = [fn |-> "GPIO_PinModeGet", port |-> port, pin |-> pin,
               ret |-> GPIO_PinModeGet(regs, port, pin)]
  /\ pc' = "done"
  /\ UNCHANGED <<series, regs, frame, todo, trace, entry, edgeAfterClear>>
  /\ UNCHANGED <<seVars, devVars, irqVars>>

Next ==
  \/ CallExtIntConfig
  \/ CallPinModeSet
  \/ CallEM4EnablePinWakeup
  \/ CallEM4WUExtIntConfig
  \/ CallPinModeGet
  \/ Step
  \/ HwEdge

Spec == Init /\ [][Next]_vars

(***************************************************************************)
(* The lifecycle-flag utility applied to flags words.                      *)
(***************************************************************************)
GpioIdle ==
  /\ series = 0
  /\ regs = [id \in RegIds |-> {}]
  /\ entry = regs
  /\ pc = "idle"
  /\ frame = NoneYet
  /\ todo = <<>>
  /\ trace = <<>>
  /\ got = NoneYet
  /\ edgeAfterClear = {}

InitSE ==
  /\ GpioIdle
  /\ DevIdle
  /\ IrqIdle
  /\ flags \in SUBSET FlagBitChoices
  /\ flagsIn = flags
  /\ flagArg = 0
  /\ isSet = <<>>

\* a call of sl_se_lifecycle_event_flag_is_set(&flags, flag_index)
CallFlagIsSet ==
  \E flag_index \in LifecycleEventFlags :
    /\ isSet' = <<sl_se_lifecycle_event_flag_is_set(flags, flag_index)>>
    /\ flagArg' = flag_index
    /\ UNCHANGED <<flags, flagsIn>>
    /\ UNCHANGED <<gpioVars, devVars, irqVars>>

NextSE == CallFlagIsSet

SpecSE == InitSE /\ [][NextSE]_vars

(***************************************************************************)
(* The Secure Engine commands for debug lock and device erase, as the      *)
(* header documents them.  seDev is the state the Secure Engine keeps;     *)
(* a command gives the state after it and the status it returns.           *)
(***************************************************************************)
\* device erases are counted up to MaxErases
MaxErases == 2

\* sl_se_erase_device left available after DEVICE_ERASE_DISABLE
erase_device_AfterDisable(d) ==
  [dev |-> [d EXCEPT !.erases = @ + 1, !.debugLocked = FALSE,
                     !.secureDebug = FALSE, !.debugOpen = FALSE],
   status |-> "SL_STATUS_OK"]

\* mass erase and debug unlock; only available before DEVICE_ERASE_DISABLE
sl_se_erase_device(d) ==
  IF d.eraseDisabled
  THEN [dev |-> d, status |-> "SL_STATUS_INVALID_COMMAND"]
  ELSE [dev |-> [d EXCEPT !.erases = @ + 1, !.debugLocked = FALSE,
                          !.secureDebug = FALSE, !.debugOpen = FALSE],
        status |-> "SL_STATUS_OK"]

\* permanently disables device erase; does not lock the debug interface
sl_se_disable_device_erase(d) ==
  [dev |-> [d EXCEPT !.eraseDisabled = TRUE], status |-> "SL_STATUS_OK"]

\* the debug port is closed
sl_se_apply_debug_lock(d) ==
  [dev |-> [d EXCEPT !.debugLocked = TRUE, !.debugOpen = FALSE],
   status |-> "SL_STATUS_OK"]

\* can only be executed before the debug port is locked
sl_se_enable_secure_debug(d) ==
  IF d.debugLocked
  THEN [dev |-> d, status |-> "SL_STATUS_INVALID_COMMAND"]
  ELSE [dev |-> [d EXCEPT !.secureDebug = TRUE], status |-> "SL_STATUS_OK"]

sl_se_disable_secure_debug(d) ==
  [dev |-> [d EXCEPT !.secureDebug = FALSE], status |-> "SL_STATUS_OK"]

\* temporary unlock with a certificate and signed challenge, if secure debug is enabled
sl_se_open_debug(d, authorized) ==
  IF d.secureDebug /\ authorized
  THEN [dev |-> [d EXCEPT !.debugOpen = TRUE], status |-> "SL_STATUS_OK"]
  ELSE [dev |-> d, status |-> "SL_STATUS_INVALID_CREDENTIALS"]

InitDev ==
  /\ GpioIdle
  /\ SeIdle
  /\ IrqIdle
  /\ DevIdle

\* command cmd is executed with result res
SeCommand(cmd, res) ==
  /\ seDev' = res.dev
  /\ seLast' = [fn |-> "command", cmd |-> cmd, status |-> res.status, before |-> seDev,
                afterDisableOk |-> disableOk]
  /\ disableOk' = (disableOk \/ (cmd = "sl_se_disable_device_erase"
                                   /\ res.status = "SL_STATUS_OK"))
  /\ UNCHANGED <<gpioVars, seVars, irqVars>>

CmdEraseDevice ==
  /\ seDev.erases < MaxErases
  /\ SeCommand("sl_se_erase_device", sl_se_erase_device(seDev))

CmdDisableDeviceErase ==
  SeCommand("sl_se_disable_device_erase", sl_se_disable_device_erase(seDev))

CmdApplyDebugLock ==
  SeCommand("sl_se_apply_debug_lock", sl_se_apply_debug_lock(seDev))

CmdEnableSecureDebug ==
  SeCommand("sl_se_enable_secure_debug", sl_se_enable_secure_debug(seDev))

CmdDisableSecureDebug ==
  SeCommand("sl_se_disable_secure_debug", sl_se_disable_secure_debug(seDev))

CmdOpenDebug ==
  \E authorized \in BOOLEAN :
    SeCommand("sl_se_open_debug", sl_se_open_debug(seDev, authorized))

\* a reset ends a temporary debug unlock; what is in OTP stays
DeviceReset ==
  /\ seDev' = [seDev EXCEPT !.debugOpen = FALSE]
  /\ seLast' = NoneYet
  /\ UNCHANGED disableOk
  /\ UNCHANGED <<gpioVars, seVars, irqVars>>

NextDev ==
  \/ CmdEraseDevice
  \/ CmdDisableDeviceErase
  \/ CmdApplyDebugLock
  \/ CmdEnableSecureDebug
  \/ CmdDisableSecureDebug
  \/ CmdOpenDebug
  \/ DeviceReset

SpecDev == InitDev /\ [][NextDev]_vars

(***************************************************************************)
(* Register updates of the main program interrupted by a handler.  A       *)
(* read-modify-write statement is a load into itmp and a store computed    *)
(* from itmp; the handler runs to its end between two accesses of the main *)
(* program.                                                                *)
(***************************************************************************)
\* interrupts taken during one behaviour
MaxIrq == 1
\* the I2C interrupt flags are bits 0..MaxI2cFlag
MaxI2cFlag == 2

\* defined(_GPIO_ROUTE_SWLOCATION_MASK)
HasRouteSwLocation == series = 0
\* defined(_GPIO_ROUTELOC0_SWVLOC_MASK)
HasRouteLoc0SwvLoc == series = 1
\* defined(_GPIO_P_CTRL_DRIVEMODE_MASK)
HasDriveMode == series = 0
\* defined(I2C_HAS_SET_CLEAR)
I2C_HAS_SET_CLEAR == series = 2

ROUTE_SWLOCATION_SHIFT == 8
ROUTE_SWLOCATION_MASK == Shl(Bits(3), ROUTE_SWLOCATION_SHIFT)
ROUTELOC0_SWVLOC_SHIFT == 0
ROUTELOC0_SWVLOC_MASK == Shl(Bits(3), ROUTELOC0_SWVLOC_SHIFT)
P_CTRL_DRIVEMODE_SHIFT == 0
P_CTRL_DRIVEMODE_MASK == Shl(Bits(3), P_CTRL_DRIVEMODE_SHIFT)

\* the debug pin locations of the documentation, the drive modes of GPIO_DRIVEMODE_VALID
Locations == 0..3
DriveModes == 0..3

I2cFlags == 0..MaxI2cFlag
I2C_IEN == G("I2C_IEN")
GpioRmwRegs == {G("ROUTE"), G("ROUTELOC0")} \cup {P(port, "CTRL") : port \in Ports}
IrqRegs == GpioRmwRegs \cup {I2C_IEN}

\* bits of ROUTE, ROUTELOC0 and P[port].CTRL outside the fields of the two functions
OtherBits == {4, 12}

\* the read of reg of a read-modify-write statement
Load(reg) == [by |-> "", reg |-> reg, kind |-> "load", mask |-> {}, val |-> {}]

\* its write: reg = (value read & ~mask) | val
Store(reg, mask, val) == [by |-> "", reg |-> reg, kind |-> "store", mask |-> mask, val |-> val]

\* GPIO_DbgLocationSet writing the location without the other bits it read
DbgLocationSet_Overwrite(location) ==
  IF HasRouteSwLocation
  THEN <<Load(G("ROUTE")),
         Store(G("ROUTE"), W32, Shl(Bits(location), ROUTE_SWLOCATION_SHIFT))>>
  ELSE IF HasRouteLoc0SwvLoc
  THEN <<Load(G("ROUTELOC0")),
         Store(G("ROUTELOC0"), W32, Shl(Bits(location), ROUTELOC0_SWVLOC_SHIFT))>>
  ELSE <<>>

GPIO_DbgLocationSet(location) ==
  IF HasRouteSwLocation
  THEN <<Load(G("ROUTE")),
         Store(G("ROUTE"), ROUTE_SWLOCATION_MASK,
               Shl(Bits(location), ROUTE_SWLOCATION_SHIFT))>>
  ELSE IF HasRouteLoc0SwvLoc
  THEN <<Load(G("ROUTELOC0")),
         Store(G("ROUTELOC0"), ROUTELOC0_SWVLOC_MASK,
               Shl(Bits(location), ROUTELOC0_SWVLOC_SHIFT))>>
  ELSE <<>>

GPIO_DriveModeSet(port, mode) ==
  <<Load(P(port, "CTRL")),
    Store(P(port, "CTRL"), P_CTRL_DRIVEMODE_MASK, Shl(Bits(mode), P_CTRL_DRIVEMODE_SHIFT))>>

\* I2C_IntDisable with the flags not inverted: IEN &= flags
I2C_IntDisable_NotInverted(flagbits) ==
  IF I2C_HAS_SET_CLEAR THEN <<RegClear(I2C_IEN, flagbits)>>
  ELSE <<Load(I2C_IEN), Store(I2C_IEN, W32 \ flagbits, {})>>

I2C_IntDisable(flagbits) ==
  IF I2C_HAS_SET_CLEAR THEN <<RegClear(I2C_IEN, flagbits)>>
  ELSE <<Load(I2C_IEN), Store(I2C_IEN, flagbits, {})>>

I2C_IntEnable(flagbits) ==
  IF I2C_HAS_SET_CLEAR THEN <<RegSet(I2C_IEN, flagbits)>>
  ELSE <<Load(I2C_IEN), Store(I2C_IEN, {}, flagbits)>>

\* the registers and the value held by the program after access op
Exec(st, op) ==
  CASE op.kind = "load"  -> [st EXCEPT !.tmp = st.r[op.reg]]
    [] op.kind = "store" -> [st EXCEPT !.r[op.reg] = (st.tmp \ op.mask) \cup op.val]
    [] op.kind = "set"   -> [st EXCEPT !.r[op.reg] = @ \cup op.val]
    [] op.kind = "clear" -> [st EXCEPT !.r[op.reg] = @ \ op.val]

RECURSIVE RunAll(_, _)
\* the accesses ops made without interruption
RunAll(st, ops) ==
  IF ops = <<>> THEN st ELSE RunAll(Exec(st, Head(ops)), Tail(ops))

InitIrq ==
  /\ series \in SeriesSet
  /\ regs = [id \in RegIds |-> {}]
  /\ entry = regs
  /\ pc = "idle"
  /\ frame = NoneYet
  /\ todo = <<>>
  /\ trace = <<>>
  /\ got = NoneYet
  /\ edgeAfterClear = {}
  /\ SeIdle
  /\ DevIdle
  /\ \E pattern \in {{}, W32} : ireg = [id \in IrqRegs |-> pattern]
  /\ ientry = ireg
  /\ ipc = "idle"
  /\ ifr = NoneYet
  /\ itodo = <<>>
  /\ itmp = {}
  /\ isrLog = <<>>

\* the main program enters a function
IrqCall(fr, ops) ==
  /\ ifr' = fr
  /\ itodo' = ops
  /\ ipc' = IF ops = <<>> THEN "done" ELSE "run"
  /\ UNCHANGED <<ireg, itmp, ientry, isrLog>>
  /\ UNCHANGED <<gpioVars, seVars, devVars>>

CallDbgLocationSet ==
  /\ ipc = "idle"
  /\ \E location \in Locations :
       IrqCall([fn |-> "GPIO_DbgLocationSet", location |-> location],
               GPIO_DbgLocationSet(location))

\* #if defined (_GPIO_P_CTRL_DRIVEMODE_MASK)
CallDriveModeSet ==
  /\ ipc = "idle"
  /\ HasDriveMode
  /\ \E port \in Ports, mode \in DriveModes :
       IrqCall([fn |-> "GPIO_DriveModeSet", port |-> port, mode |-> mode],
               GPIO_DriveModeSet(port, mode))

\* the I2C flags handlers have enabled or disabled so far
IsrI2cFlags ==
  UNION {isrLog[i].setb \cup isrLog[i].clrb :
           i \in {j \in 1..Len(isrLog) : isrLog[j].reg = I2C_IEN}}

\* the sets of flags the main program may pass: not those of the handlers
MainI2cFlagSets == (SUBSET (I2cFlags \ IsrI2cFlags)) \ {{}}

CallI2cIntEnable ==
  /\ ipc = "idle"
  /\ \E f1 \in MainI2cFlagSets :
       IrqCall([fn |-> "I2C_IntEnable", flags |-> f1], I2C_IntEnable(f1))

CallI2cIntDisable ==
  /\ ipc = "idle"
  /\ \E f1 \in MainI2cFlagSets :
       IrqCall([fn |-> "I2C_IntDisable", flags |-> f1], I2C_IntDisable(f1))

\* the next access of the main program
IrqStep ==
  /\ ipc = "run"
  /\ LET st == Exec([r |-> ireg, tmp |-> itmp], Head(itodo))
     IN  /\ ireg' = st.r
         /\ itmp' = st.tmp
  /\ itodo' = Tail(itodo)
  /\ ipc' = IF Len(itodo) = 1 THEN "done" ELSE "run"
  /\ UNCHANGED <<ifr, ientry, isrLog>>
  /\ UNCHANGED <<gpioVars, seVars, devVars>>

\* where the main program is: before its access (or its read), between its
\* read and its write, or after its return
Phase ==
  IF ipc = "done" THEN "after"
  ELSE IF ipc = "run" /\ Head(itodo).kind = "store" THEN "between"
  ELSE "before"

\* a handler runs the accesses ops, which set the bits setb and clear clrb of reg
Isr(reg, setb, clrb, ops) ==
  /\ ireg' = RunAll([r |-> ireg, tmp |-> {}], ops).r
  /\ isrLog' = Append(isrLog, [at |-> Phase, reg |-> reg, setb |-> setb, clrb |-> clrb])
  /\ UNCHANGED <<ipc, ifr, itodo, itmp, ientry>>
  /\ UNCHANGED <<gpioVars, seVars, devVars>>

\* a handler sets or clears another bit of a register of the two GPIO functions
IsrGpioWrite ==
  /\ Len(isrLog) < MaxIrq
  /\ \E reg \in GpioRmwRegs, b \in OtherBits :
       \/ Isr(reg, {b}, {}, <<Load(reg), Store(reg, {}, {b})>>)
       \/ Isr(reg, {}, {b}, <<Load(reg), Store(reg, {b}, {})>>)

\* the sets of flags a handler may pass: not those of the main program
IsrI2cFlagSets ==
  (SUBSET (I2cFlags \ (IF ifr.fn \in {"I2C_IntEnable", "I2C_IntDisable"}
                       THEN ifr.flags ELSE {}))) \ {{}}

IsrI2cIntEnable ==
  /\ Len(isrLog) < MaxIrq
  /\ \E f2 \in IsrI2cFlagSets : Isr(I2C_IEN, f2, {}, I2C_IntEnable(f2))

IsrI2cIntDisable ==
  /\ Len(isrLog) < MaxIrq
  /\ \E f2 \in IsrI2cFlagSets : Isr(I2C_IEN, {}, f2, I2C_IntDisable(f2))

NextIrq ==
  \/ CallDbgLocationSet
  \/ CallDriveModeSet
  \/ CallI2cIntEnable
  \/ CallI2cIntDisable
  \/ IrqStep
  \/ IsrGpioWrite
  \/ IsrI2cIntEnable
  \/ IsrI2cIntDisable

SpecIrq == InitIrq /\ [][NextIrq]_vars

(***************************************************************************)
(* Properties.                                                             *)
(***************************************************************************)
\* function fn has returned
Done(fn) == pc = "done" /\ frame.fn = fn

\* the positions of the trace where register reg was accessed
Accesses(reg) == {i \in 1..Len(trace) : trace[i].reg = reg}

\* the positions of the trace where all of the interrupt flags fl were cleared
FlagClears(fl) ==
  {i \in Accesses(G("IF")) : trace[i].kind = "clear" /\ fl \subseteq trace[i].val}

\* the field of mask m at bit position sh of word w, as a number
Field(w, sh, m) == Val(Shr(w, sh) \cap m)

\* C1: GPIO_ExtIntConfig clears the pending flag of interrupt intNo after it
\* has written the rising and falling edge bits and before it writes the IEN
\* bit; unless an edge arrives after the clear, the flag is 0 at the return.
C1_PendingClearedBeforeEnable ==
  Done("GPIO_ExtIntConfig") =>
    /\ \E r \in Accesses(G("EXTIRISE")), f \in Accesses(G("EXTIFALL")),
          c \in FlagClears({frame.intNo}), e \in Accesses(G("IEN")) :
         r < c /\ f < c /\ c < e
    /\ \A c \in FlagClears({frame.intNo}), e \in Accesses(G("IEN")) : c < e
    /\ (frame.intNo \notin edgeAfterClear => frame.intNo \notin regs[G("IF")])

\* C1 witness: the flag of a high interrupt was pending at entry and is clear
\* at the return
C1_Witness ==
  /\ Done("GPIO_ExtIntConfig")
  /\ frame.intNo >= 8
  /\ frame.intNo \in entry[G("IF")]
  /\ frame.intNo \notin regs[G("IF")]

\* C2: after GPIO_ExtIntConfig, bit intNo of EXTIRISE is risingEdge, bit intNo
\* of EXTIFALL is fallingEdge and bit intNo of IEN is enable.
C2_EdgeAndEnableBits ==
  Done("GPIO_ExtIntConfig") =>
    /\ (frame.intNo \in regs[G("EXTIRISE")]) = frame.risingEdge
    /\ (frame.intNo \in regs[G("EXTIFALL")]) = frame.fallingEdge
    /\ (frame.intNo \in regs[G("IEN")]) = frame.enable

\* C2 witness: an enabled interrupt with both edges on is reconfigured to the
\* rising edge only and left disabled
C2_Witness ==
  /\ Done("GPIO_ExtIntConfig")
  /\ frame.intNo \in entry[G("IEN")] \cap entry[G("EXTIFALL")]
  /\ frame.risingEdge /\ ~frame.fallingEdge /\ ~frame.enable
  /\ frame.intNo \in regs[G("EXTIRISE")]
  /\ frame.intNo \notin regs[G("EXTIFALL")] \cup regs[G("IEN")]

\* the port-select field of interrupt n
PortSelField(n) ==
  IF n < 8 THEN Field(regs[G("EXTIPSELL")], 4 * n, EXTIPSEL_MASK)
           ELSE Field(regs[G("EXTIPSELH")], 4 * (n - 8), EXTIPSEL_MASK)

\* the pin-select field of interrupt n
PinSelField(n) ==
  IF n < 8 THEN Field(regs[G("EXTIPINSELL")], 4 * n, EXTIPINSEL_MASK)
           ELSE Field(regs[G("EXTIPINSELH")], 4 * (n - 8), EXTIPINSEL_MASK)

\* C3: after GPIO_ExtIntConfig the port-select field of interrupt intNo holds
\* port, and where the pin is selectable the pin-select field holds pin % 4,
\* so that 4 * (intNo / 4) + field = pin.
C3_PortAndPinSelected ==
  Done("GPIO_ExtIntConfig") =>
    /\ PortSelField(frame.intNo) = frame.port
    /\ HasExtIPinSel =>
         /\ PinSelField(frame.intNo) = frame.pin % 4
         /\ 4 * (frame.intNo \div 4) + PinSelField(frame.intNo) = frame.pin

\* C3 witness: a high interrupt mapped to port 1 and to the last pin of its
\* group, on a device with pin selection, over fields that held other values
C3_Witness ==
  /\ Done("GPIO_ExtIntConfig")
  /\ HasExtIPinSel
  /\ frame.intNo >= 8 /\ frame.port = 1 /\ frame.pin % 4 = 3
  /\ frame.pin # frame.intNo
  /\ entry[G("EXTIPSELH")] = {}
  /\ PortSelField(frame.intNo) = 1 /\ PinSelField(frame.intNo) = 3

\* C4: GPIO_PinModeGet(port, pin) called after GPIO_PinModeSet(port, pin,
\* mode, out) returns mode.
C4_ModeGetAfterSet ==
  (Done("GPIO_PinModeSet") /\ got # NoneYet
     /\ got.port = frame.port /\ got.pin = frame.pin)
    => got.ret = frame.mode

\* C4 witness: the mode of a pin of MODEH read back, the field having held 15
C4_Witness ==
  /\ Done("GPIO_PinModeSet") /\ got # NoneYet
  /\ got.port = frame.port /\ got.pin = frame.pin
  /\ frame.pin >= 8 /\ frame.mode = 5 /\ got.ret = 5
  /\ entry[P(frame.port, "MODEH")] = W32

C6_WakeupEnabledWithPolarity ==
  Done("GPIO_EM4EnablePinWakeup") =>
    \A b \in frame.pinmask :
      /\ b \in regs[G("EM4WUEN")]
      /\ (b \in regs[WuPolReg]) = (b \in frame.polaritymask)

\* C6 witness: two pins are selected, one active high and one active low,
\* their polarity bits having been 1 and their enable bits 0 or 1
C6_Witness ==
  /\ Done("GPIO_EM4EnablePinWakeup")
  /\ Cardinality(frame.pinmask) >= 2
  /\ frame.pinmask \subseteq entry[WuPolReg]
  /\ frame.pinmask \cap frame.polaritymask # {}
  /\ frame.pinmask \ frame.polaritymask # {}
  /\ frame.pinmask \ regs[WuPolReg] # {}

\* the pin retention is enabled
RetentionEnabled ==
  IF HasCtrlEM4Ret THEN GPIO_CTRL_EM4RET \subseteq regs[G("CTRL")]
  ELSE regs[G("EM4CTRL")] \cap EM4IORETMODE_MASK = EM4IORETMODE_EM4EXIT

\* access a of the trace clears the wake-up logic, or the flags fl
IsWakeupClear(a, fl) ==
  IF HasCmdEM4WUClr
  THEN a.kind = "cmd" /\ GPIO_CMD_EM4WUCLR \subseteq a.val
  ELSE a.reg = G("IF") /\ a.kind = "clear" /\ fl \subseteq a.val

\* C7: when GPIO_EM4EnablePinWakeup exits the pin retention is enabled and
\* the wake-up logic (or the flags of pinmask) has been cleared, the clear
\* being the last access, after polarity, enable and retention were written.
C7_ClearIsLast ==
  Done("GPIO_EM4EnablePinWakeup") =>
    /\ RetentionEnabled
    /\ Len(trace) >= 4
    /\ IsWakeupClear(trace[Len(trace)], frame.pinmask)
    /\ \A i \in 1..(Len(trace) - 1) : ~IsWakeupClear(trace[i], frame.pinmask)
    /\ Accesses(WuPolReg) # {}
    /\ Accesses(G("EM4WUEN")) # {}
    /\ Accesses(IF HasCtrlEM4Ret THEN G("CTRL") ELSE G("EM4CTRL")) # {}
    /\ IF HasCmdEM4WUClr THEN regs[G("EM4WUCAUSE")] = {}
       ELSE regs[G("IF")] \cap frame.pinmask \subseteq edgeAfterClear

\* C7 witness: on a device without the clear command the pending flags of two
\* pins were set at entry and are clear at the exit, the retention mode
\* having been another one
C7_Witness ==
  /\ Done("GPIO_EM4EnablePinWakeup")
  /\ ~HasCmdEM4WUClr
  /\ Cardinality(frame.pinmask) >= 2
  /\ frame.pinmask \subseteq entry[G("IF")]
  /\ frame.pinmask \cap regs[G("IF")] = {}
  /\ entry[G("EM4CTRL")] \cap EM4IORETMODE_MASK # EM4IORETMODE_EM4EXIT
  /\ RetentionEnabled

\* the flag and the IEN bit of EM4WU interrupt n
Em4WuBit(n) == n + IEN_EM4WU_SHIFT

\* C8: GPIO_EM4WUExtIntConfig clears the pending flag of EM4WU interrupt intNo
\* inside GPIO_EM4EnablePinWakeup and only afterwards writes the IEN bit of
\* the interrupt, to the value of enable.
C8_WuPendingClearedBeforeEnable ==
  Done("GPIO_EM4WUExtIntConfig") =>
    /\ \E c \in FlagClears({Em4WuBit(frame.intNo)}) :
         trace[c].by = "GPIO_EM4EnablePinWakeup"
    /\ Accesses(G("IEN")) # {}
    /\ \A c \in FlagClears({Em4WuBit(frame.intNo)}), e \in Accesses(G("IEN")) :
         /\ c < e
         /\ trace[e].by = "GPIO_EM4WUExtIntConfig"
         /\ trace[e].mask = {Em4WuBit(frame.intNo)}
    /\ (Em4WuBit(frame.intNo) \in regs[G("IEN")]) = frame.enable
    /\ (Em4WuBit(frame.intNo) \notin edgeAfterClear
          => Em4WuBit(frame.intNo) \notin regs[G("IF")])

\* C8 witness: the flag of the EM4WU interrupt was pending at entry, is clear
\* at the return and the interrupt is enabled
C8_Witness ==
  /\ Done("GPIO_EM4WUExtIntConfig")
  /\ frame.enable /\ frame.intNo > 0
  /\ Em4WuBit(frame.intNo) \in entry[G("IF")]
  /\ Em4WuBit(frame.intNo) \notin regs[G("IF")]
  /\ Em4WuBit(frame.intNo) \in regs[G("IEN")]

\* C9: after GPIO_EM4WUExtIntConfig the polarity bit of EM4WU interrupt intNo
\* is 1 iff polarity, its wake-up enable bit is set, and the pin is in mode
\* gpioModeInputPullFilter with its DOUT bit the negation of polarity.
C9_LevelInterruptConfigured ==
  Done("GPIO_EM4WUExtIntConfig") =>
    /\ ((frame.intNo + EM4WUEN_SHIFT) \in regs[WuPolReg]) = frame.polarity
    /\ (frame.intNo + EM4WUEN_SHIFT) \in regs[G("EM4WUEN")]
    /\ GPIO_PinModeGet(regs, frame.port, frame.pin) = gpioModeInputPullFilter
    /\ (frame.pin \in regs[P(frame.port, "DOUT")]) = ~frame.polarity

\* C9 witness: an active-high interrupt on a pin whose DOUT bit was 1 and
\* whose polarity and enable bits were 0
C9_Witness ==
  /\ Done("GPIO_EM4WUExtIntConfig")
  /\ frame.polarity
  /\ entry[WuPolReg] = {} /\ entry[G("EM4WUEN")] = {}
  /\ (frame.intNo + EM4WUEN_SHIFT) \in regs[WuPolReg] \cap regs[G("EM4WUEN")]
  /\ frame.pin \notin regs[P(frame.port, "DOUT")]
  /\ GPIO_PinModeGet(regs, frame.port, frame.pin) = 3

\* C10: sl_se_lifecycle_event_flag_is_set returns true iff bit flag_index of
\* the flags word is 1, for flag_index in 0..7, and leaves the word as it was.
C10_FlagIsSetReadsBit ==
  isSet # <<>> =>
    /\ isSet[1] = (flagArg \in flags)
    /\ flags = flagsIn

\* C10 witness: the flag asked for is clear while a lower and a higher flag and
\* bits above 31 are set, and the answer is false
C10_Witness ==
  /\ isSet = <<FALSE>>
  /\ flagArg = 5
  /\ {1, 6, 32, 63} \subseteq flags

\* C11: once sl_se_disable_device_erase has returned SL_STATUS_OK, every
\* sl_se_erase_device returns SL_STATUS_INVALID_COMMAND, erases nothing and
\* unlocks nothing, whatever commands came in between; and
\* sl_se_disable_device_erase leaves the debug lock as it was.
C11_EraseDisablePermanent ==
  /\ (seLast.fn # "none" /\ seLast.cmd = "sl_se_erase_device" /\ seLast.afterDisableOk)
       => /\ seLast.status = "SL_STATUS_INVALID_COMMAND"
          /\ seDev = seLast.before
  /\ (seLast.fn # "none" /\ seLast.cmd = "sl_se_disable_device_erase")
       => /\ seLast.status = "SL_STATUS_OK"
          /\ seDev.debugLocked = seLast.before.debugLocked
          /\ seDev.debugOpen = seLast.before.debugOpen

\* C11 witness: the device was erased once, then erase was disabled and the
\* debug port locked; a further sl_se_erase_device is refused
C11_Witness ==
  /\ seLast.fn # "none"
  /\ seLast.cmd = "sl_se_erase_device"
  /\ seLast.afterDisableOk
  /\ seLast.status = "SL_STATUS_INVALID_COMMAND"
  /\ seDev.erases = 1
  /\ seDev.debugLocked

\* the main program has returned from function fn
IrqDone(fn) == ipc = "done" /\ ifr.fn = fn

RECURSIVE ReplayLog(_, _, _, _)
\* word w after the handler writes to reg logged in the phases ph, from entry i on
ReplayLog(reg, ph, w, i) ==
  IF i > Len(isrLog) THEN w
  ELSE ReplayLog(reg, ph,
                 IF isrLog[i].reg = reg /\ isrLog[i].at \in ph
                 THEN (w \cup isrLog[i].setb) \ isrLog[i].clrb
                 ELSE w,
                 i + 1)

\* the handler write logged at i is the last one to its bits
LastWriter(i) ==
  \A j \in (i + 1)..Len(isrLog) :
    isrLog[j].reg = isrLog[i].reg =>
      (isrLog[j].setb \cup isrLog[j].clrb) \cap (isrLog[i].setb \cup isrLog[i].clrb) = {}

\* the bits of the handler write logged at i are in the register as written
Present(i) ==
  /\ isrLog[i].setb \subseteq ireg[isrLog[i].reg]
  /\ isrLog[i].clrb \cap ireg[isrLog[i].reg] = {}

\* the register, field mask and field value of the GPIO function that returned
RmwTarget ==
  CASE ifr.fn = "GPIO_DriveModeSet" ->
         [reg |-> P(ifr.port, "CTRL"), mask |-> P_CTRL_DRIVEMODE_MASK,
          val |-> Shl(Bits(ifr.mode), P_CTRL_DRIVEMODE_SHIFT)]
    [] ifr.fn = "GPIO_DbgLocationSet" /\ HasRouteSwLocation ->
         [reg |-> G("ROUTE"), mask |-> ROUTE_SWLOCATION_MASK,
          val |-> Shl(Bits(ifr.location), ROUTE_SWLOCATION_SHIFT)]
    [] OTHER ->
         [reg |-> G("ROUTELOC0"), mask |-> ROUTELOC0_SWVLOC_MASK,
          val |-> Shl(Bits(ifr.location), ROUTELOC0_SWVLOC_SHIFT)]

\* GPIO_DbgLocationSet or GPIO_DriveModeSet has returned after accessing a register
RmwDone ==
  \/ IrqDone("GPIO_DriveModeSet")
  \/ IrqDone("GPIO_DbgLocationSet") /\ (HasRouteSwLocation \/ HasRouteLoc0SwvLoc)

\* C12 as stated: bits of the same register written by a handler between the
\* read and the write of GPIO_DbgLocationSet or GPIO_DriveModeSet are still
\* in the register when the function returns.
C12_HandlerBitsKept ==
  RmwDone =>
    \A i \in 1..Len(isrLog) :
      (isrLog[i].reg = RmwTarget.reg /\ isrLog[i].at = "between" /\ LastWriter(i))
        => Present(i)

\* C12 amended: GPIO_DbgLocationSet and GPIO_DriveModeSet write back the value
\* they read with only their own field changed; bits of the register written
\* by a handler before the read or after the write are there at the return,
\* bits written between the read and the write are back at their value at
\* the read.
C12_WritesBackWhatItRead ==
  RmwDone =>
    LET t == RmwTarget
        atRead == ReplayLog(t.reg, {"before"}, ientry[t.reg], 1)
    IN  /\ ireg[t.reg] = ReplayLog(t.reg, {"after"}, (atRead \ t.mask) \cup t.val, 1)
        /\ ireg[t.reg] \cap t.mask = t.val

\* C12 witness: a handler set another bit of the register between the read
\* and the write, and the bit is 0 again at the return
C12_Witness ==
  /\ RmwDone
  /\ \E i \in 1..Len(isrLog) :
       /\ isrLog[i].reg = RmwTarget.reg
       /\ isrLog[i].at = "between"
       /\ isrLog[i].setb # {}
       /\ isrLog[i].setb \cap ireg[RmwTarget.reg] = {}
  /\ ireg[RmwTarget.reg] \cap RmwTarget.mask = RmwTarget.val
  /\ RmwTarget.val # {}

\* I2C_IntEnable or I2C_IntDisable of the main program has returned
I2cDone == IrqDone("I2C_IntEnable") \/ IrqDone("I2C_IntDisable")

\* IEN word w after the call of the main program alone
MainI2cEffect(w) ==
  IF ifr.fn = "I2C_IntEnable" THEN w \cup ifr.flags ELSE w \ ifr.flags

\* IEN reflects the call of the main program
MainI2cReflected ==
  IF ifr.fn = "I2C_IntEnable" THEN ifr.flags \subseteq ireg[I2C_IEN]
                              ELSE ifr.flags \cap ireg[I2C_IEN] = {}

\* C13 as stated: with disjoint flag sets, IEN reflects the call of the main
\* program and the call of the handler, with and without set/clear registers.
C13_BothCallsReflected ==
  I2cDone =>
    /\ MainI2cReflected
    /\ \A i \in 1..Len(isrLog) :
         (isrLog[i].reg = I2C_IEN /\ LastWriter(i)) => Present(i)

\* C13 amended: IEN reflects the call of the main program; it reflects the
\* calls of the handler too where there are set/clear registers, and without
\* them unless the handler ran between the main program's read of IEN and its
\* write, in which case IEN is as if the handler had not run.
C13_HandlerLostOnlyInWindow ==
  I2cDone =>
    /\ MainI2cReflected
    /\ IF I2C_HAS_SET_CLEAR
       THEN ireg[I2C_IEN] =
              MainI2cEffect(ReplayLog(I2C_IEN, {"before", "between", "after"},
                                      ientry[I2C_IEN], 1))
       ELSE ireg[I2C_IEN] =
              ReplayLog(I2C_IEN, {"after"},
                        MainI2cEffect(ReplayLog(I2C_IEN, {"before"}, ientry[I2C_IEN], 1)),
                        1)

\* C13 witness: without set/clear registers a handler enabled a flag between
\* the read and the write of I2C_IntEnable; the flag of the main program is
\* enabled at the return, the flag of the handler is not
C13_Witness ==
  /\ IrqDone("I2C_IntEnable")
  /\ ~I2C_HAS_SET_CLEAR
  /\ ifr.flags \subseteq ireg[I2C_IEN]
  /\ \E i \in 1..Len(isrLog) :
       /\ isrLog[i].reg = I2C_IEN
       /\ isrLog[i].at = "between"
       /\ isrLog[i].setb # {}
       /\ isrLog[i].setb \cap ireg[I2C_IEN] = {}

====
